---- MODULE Spec2Model ----
(***************************************************************************)
(* Model of the command pipeline execution core of cmd_lib                 *)
(* (src/src/process.rs): GroupCmds (group driver), Cmds (pipeline          *)
(* executor), Cmd (command stage, redirects, cd) and the waiters WaitCmd   *)
(* and WaitFun.                                                            *)
(*                                                                         *)
(* A path is a sequence of components; an absolute path starts with the    *)
(* component "/"; the empty sequence is the empty string.  A byte buffer   *)
(* is not modelled by content here: a handle only records whether it still *)
(* holds its child or buffer.                                              *)
(***************************************************************************)
EXTENDS Integers, Sequences, FiniteSets, TLC

\* ---------------------------------------------------------------- bounds
\* longest pipeline of the single-pipeline inputs
MaxStages == 3
\* longest group of the multi-pipeline inputs
MaxPairs == 2
\* the most arguments given to one stage
MaxArgs == 3

\* ------------------------------------------------------------ file system
Root == <<"/">>
DirA == <<"/", "a">>
DirASub == <<"/", "a", "sub">>
DirHome == <<"/", "home">>
DirHomeSub == <<"/", "home", "sub">>
DirLocked == <<"/", "locked">>
DirDev == <<"/", "dev">>
DevStdout == <<"/", "dev", "stdout">>
DevStderr == <<"/", "dev", "stderr">>

\* the directories that exist, and those the caller may not enter
Dirs == {Root, DirA, DirASub, DirHome, DirHomeSub, DirLocked, DirDev}
NoExecDirs == {DirLocked}
\* the files that exist before the run
FileIn == DirHome \o <<"in">>
FileOld == DirHome \o <<"old">>
InitFiles == {DevStdout, DevStderr, FileIn, FileOld}
\* the bytes the files hold at the start; the two devices collect what is
\* written to the caller's stdout and stderr
InitContent(f) ==
    CASE f = FileIn -> <<"i", "\n">>
      [] f = FileOld -> <<"o", "l", "d", "\n">>
      [] OTHER -> <<>>

IsAbs(p) == p # <<>> /\ p[1] = "/"

\* the operating system's resolution of path p by a process whose working
\* directory is base
Resolve(base, p) == IF IsAbs(p) THEN p ELSE base \o p

Parent(p) == SubSeq(p, 1, Len(p) - 1)

\* ------------------------------------------------------------- redirects
FileToStdin(p) == [tag |-> "FileToStdin", path |-> p, append |-> FALSE]
StdoutToStderr == [tag |-> "StdoutToStderr", path |-> <<>>, append |-> FALSE]
StderrToStdout == [tag |-> "StderrToStdout", path |-> <<>>, append |-> FALSE]
StdoutToFile(p, a) == [tag |-> "StdoutToFile", path |-> p, append |-> a]
StderrToFile(p, a) == [tag |-> "StderrToFile", path |-> p, append |-> a]

\* Option<File>: an open file is identified by the absolute path it was
\* opened at
\* opened at, and carries the O_APPEND flag it was opened with
NoFile == [some |-> FALSE, target |-> <<>>, append |-> FALSE]
SomeFile(t, a) == [some |-> TRUE, target |-> t, append |-> a]

\* ----------------------------------------------------------------- stages
\* struct Cmd after gen_command: in_cmd_map, args, redirects
ExtCmd(r) == [args |-> <<"ls">>, in_cmd_map |-> FALSE, redirects |-> r]
FunCmd(r) == [args |-> <<"fun">>, in_cmd_map |-> TRUE, redirects |-> r]
CdCmd(ops) == [args |-> <<"cd">> \o ops, in_cmd_map |-> FALSE, redirects |-> <<>>]

arg0(cmd) == IF cmd.args = <<>> THEN "" ELSE cmd.args[1]

debug_str(cmd) == <<cmd.args, cmd.redirects>>

ToOut == <<StdoutToFile(<<"out">>, FALSE)>>
FromMissing == <<FileToStdin(<<"missing">>)>>

\* the stages of the single-pipeline inputs
PipeStages ==
    {ExtCmd(<<>>), ExtCmd(ToOut), ExtCmd(FromMissing),
     FunCmd(<<>>), FunCmd(ToOut),
     CdCmd(<<DirA>>), CdCmd(<<<<"nodir">>>>)}

\* the operand lists of the cd stages of the multi-pipeline inputs
CdOperands ==
    {<<>>, <<DirA>>, <<<<"sub">>>>, <<<<"nodir">>>>, <<DirLocked>>, <<DirA, DirASub>>}

SeqsUpTo(S, n) == UNION {[1..k -> S] : k \in 1..n}

Pair(p) == [cmds |-> p, has_or |-> FALSE, or_cmds |-> <<>>]
PairOr(p, q) == [cmds |-> p, has_or |-> TRUE, or_cmds |-> q]

\* the (pipeline, fallback) pairs of the multi-pipeline inputs
GroupPipes ==
    {<<CdCmd(ops)>> : ops \in {<<DirA>>, <<<<"sub">>>>, <<<<"nodir">>>>}}
        \cup {<<ExtCmd(ToOut)>>, <<FunCmd(<<>>)>>}
OrPipes == {<<ExtCmd(<<>>)>>, <<CdCmd(<<DirA>>)>>}
GroupPairs ==
    {Pair(p) : p \in GroupPipes} \cup {PairOr(p, q) : p \in GroupPipes, q \in OrPipes}

Entries == {"run_cmd", "run_fun"}
\* the entry points that hand the waiter to the caller
SpawnEntries == {"spawn", "spawn_with_output"}

\* the inputs: one pipeline of up to MaxStages stages; a group of up to
\* MaxPairs pairs of short pipelines; cd /a followed by a cd of every shape
Inputs ==
    {[group |-> <<Pair(p)>>, entry |-> e, pipefail |-> pf] :
        p \in SeqsUpTo(PipeStages, MaxStages), e \in Entries, pf \in BOOLEAN}
    \cup {[group |-> g, entry |-> e, pipefail |-> TRUE] :
        g \in SeqsUpTo(GroupPairs, MaxPairs), e \in Entries}
    \cup {[group |-> <<Pair(<<CdCmd(<<DirA>>)>>), Pair(<<CdCmd(ops)>>)>>,
           entry |-> "run_cmd", pipefail |-> TRUE] : ops \in CdOperands}

\* the inputs of GroupCmds::spawn and GroupCmds::spawn_with_output: a group of
\* exactly one pipeline
InputsSpawn ==
    {[group |-> <<Pair(p)>>, entry |-> e, pipefail |-> pf] :
        p \in SeqsUpTo(PipeStages, MaxStages), e \in SpawnEntries, pf \in BOOLEAN}

\* the inputs with a cd stage inside a longer pipeline: the pipeline, with or
\* without a fallback, and a pipeline after it
CdFollowers == {ExtCmd(<<>>), FunCmd(<<>>), ExtCmd(FromMissing)}
CdPipes ==
    {<<CdCmd(<<d>>), x>> : d \in {DirA, <<"nodir">>}, x \in CdFollowers}
        \cup {<<x, CdCmd(<<DirA>>)>> : x \in CdFollowers}
        \cup {<<CdCmd(<<DirA>>), x, y>> : x \in CdFollowers, y \in CdFollowers}
AfterPipes == {<<ExtCmd(<<>>)>>, <<FunCmd(<<>>)>>, <<CdCmd(<<DirASub>>)>>}
InputsCd ==
    {[group |-> <<Pair(p), Pair(r)>>, entry |-> e, pipefail |-> pf] :
        p \in CdPipes, r \in AfterPipes, e \in Entries, pf \in BOOLEAN}
    \cup {[group |-> <<PairOr(p, q), Pair(r)>>, entry |-> e, pipefail |-> pf] :
        p \in CdPipes, q \in AfterPipes, r \in AfterPipes, e \in Entries,
        pf \in BOOLEAN}

\* the redirect directives, and the redirect lists, of the inputs that
\* exercise the streams
RedirChoices ==
    {FileToStdin(<<"in">>), StdoutToFile(<<"old">>, FALSE), StdoutToFile(<<"old">>, TRUE),
     StdoutToFile(<<"out">>, FALSE), StderrToFile(<<"err">>, FALSE),
     StdoutToStderr, StderrToStdout}
RedirLists ==
    {<<>>} \cup {<<d>> : d \in RedirChoices} \cup {<<d, e>> : d, e \in RedirChoices}
IoStages == {ExtCmd(r) : r \in RedirLists} \cup {FunCmd(r) : r \in RedirLists}
PlainStages == {ExtCmd(<<>>), FunCmd(<<>>)}
IoPipes ==
    {<<c>> : c \in IoStages}
        \cup {<<c, q>> : c \in IoStages, q \in PlainStages}
        \cup {<<q, c>> : c \in IoStages, q \in PlainStages}
        \cup {<<q1, q2, q3>> : q1 \in PlainStages, q2 \in PlainStages, q3 \in PlainStages}
        \cup {<<CdCmd(<<DirA>>), q>> : q \in PlainStages}
\* a stage that writes a file, then a builtin that reads the file
WriteThenRead ==
    {<<Pair(<<c>>), Pair(<<FunCmd(<<FileToStdin(c.redirects[1].path)>>)>>)>> :
        c \in {ExtCmd(<<StdoutToFile(f, a)>>) : f \in {<<"old">>, <<"out">>}, a \in BOOLEAN}
                \cup {FunCmd(<<StdoutToFile(f, a)>>) :
                            f \in {<<"old">>, <<"out">>}, a \in BOOLEAN}}
InputsIO ==
    {[group |-> <<Pair(p)>>, entry |-> e, pipefail |-> TRUE] :
        p \in IoPipes, e \in Entries}
    \cup {[group |-> g, entry |-> "run_cmd", pipefail |-> TRUE] : g \in WriteThenRead}

\* the inputs that exercise the output waiter: short pipelines whose stages
\* write output with and without trailing newlines
TrimOuts ==
    {<<>>, <<"\n">>, <<"#">>, <<"#", "\n">>, <<"#", "\n", "\n">>, <<"\n", "#">>,
     <<"xFF", "\n">>}
TrimPipes ==
    {<<q>> : q \in PlainStages}
        \cup {<<q1, q2>> : q1 \in PlainStages, q2 \in PlainStages}
        \cup {<<CdCmd(<<DirA>>), q>> : q \in PlainStages}
InputsTrim ==
    {[group |-> <<Pair(p)>>, entry |-> "run_fun", pipefail |-> TRUE] : p \in TrimPipes}

\* ------------------------------------------------------------------ state
VARIABLES
    group,          \* GroupCmds.group_cmds: the (pipeline, fallback) pairs
    entry,          \* the entry point called: run_cmd or run_fun
    pipefail,       \* CMD_LIB_PIPEFAIL is not "0"
    caller_cwd,     \* the working directory of the calling process
    files,          \* the files that exist
    current_dir,    \* GroupCmds.current_dir
    pc,             \* position of the driver
    gi,             \* index of the pair being run
    inOr,           \* the fallback of pair gi is being run
    si,             \* index of the stage being set up or spawned
    redir,          \* per stage: stdin_redirect, stdout_redirect, stderr_redirect
    children,       \* Vec<(ProcHandle, String)>
    ret,            \* result of the pipeline that just returned
    result,         \* result of the entry point
    \* history of the pipeline being run
    setupFailed,    \* a setup_redirects of this pipeline returned an error
    dirAtStart,     \* current_dir when the pipeline was started
    spawnLog,       \* stages spawned or invoked, in order
    waitLog,        \* children waited on, in order, and by whom
    bufLog,         \* deliveries of builtin output buffers
    pathLog,        \* paths the pipeline handed to the operating system
    waiterRan,      \* the waiter of this pipeline was called
    \* history of the group
    runLog,         \* pipelines run so far, with their results
    soleCd,         \* current_dir was set by a cd that was its pipeline's sole stage
    \* spawn / spawn_with_output
    callerWaits,    \* the caller called wait_result on the waiter it was handed
    \* data
    outs,           \* what the programs and callbacks of this run may write to stdout
    content,        \* the bytes every file holds
    ioLog,          \* per stage spawned or invoked: its three streams and its bytes
    output,         \* the String the output waiter returned
    \* construction of a stage
    CMD_MAP,        \* the registry of builtins: name -> callback
    stage,          \* the Cmd being built
    argLog,         \* the arguments given to add_arg so far
    mapAtArg0,      \* the names registered when the first argument was pushed
    bpc,            \* "build", "piped" (Cmds::pipe has run) or "spawned"
    executed        \* how Cmd::spawn ran the stage

mvars == <<group, entry, pipefail, caller_cwd, files, current_dir, pc, gi, inOr, si,
           redir, children, ret, result, setupFailed, dirAtStart, spawnLog, waitLog,
           bufLog, pathLog, waiterRan, runLog, soleCd, callerWaits, outs, content,
           ioLog, output>>
bvars == <<CMD_MAP, stage, argLog, mapAtArg0, bpc, executed>>
vars == <<mvars, bvars>>

\* ----------------------------------------------------------------- results
NoErr == [kind |-> "none", cmd |-> <<>>, idx |-> 0]
Err(kind, cmd, idx) == [kind |-> kind, cmd |-> cmd, idx |-> idx]
\* Result<T>: out names the stage whose stdout bytes the value holds, 0 for
\* no bytes
Ok == [ok |-> TRUE, err |-> NoErr, out |-> 0]
OkOut(o) == [ok |-> TRUE, err |-> NoErr, out |-> o]
Fail(e) == [ok |-> FALSE, err |-> e, out |-> 0]

\* the pipeline being run, and the stage at hand
CurPair == group[gi]
CurCmds == IF inOr THEN CurPair.or_cmds ELSE CurPair.cmds
CurCmd == CurCmds[si]
\* run_fun runs the last pair (and its fallback) as output-producing
\* (spawn_with_output passes with_output = true, spawn passes false)
with_output_always == entry \in {"run_fun", "spawn_with_output"}

with_output ==
    \/ entry = "run_fun" /\ gi = Len(group)
    \/ entry = "spawn_with_output"

\* ------------------------------------------------------------------- bytes
\* what a stage writes to its stdout is given by a template, in which "#"
\* stands for a byte that names the stage
Tags == <<"1", "2", "3", "4", "5", "6", "7", "8", "9">>
Subst(t, i) == [k \in DOMAIN t |-> IF t[k] = "#" THEN Tags[i] ELSE t[k]]

DefaultOuts == {<<"#", "\n">>}

\* String::from_utf8_lossy: a byte that is not valid UTF-8 becomes U+FFFD
from_utf8_lossy(b) == [k \in DOMAIN b |-> IF b[k] = "xFF" THEN "uFFFD" ELSE b[k]]

\* if ret.ends_with('\n') { ret.pop(); }
trim_newline_unconditional(str) ==
    IF str # <<>> THEN SubSeq(str, 1, Len(str) - 1) ELSE str

trim_newline(str) ==
    IF str # <<>> /\ str[Len(str)] = "\n" THEN SubSeq(str, 1, Len(str) - 1) ELSE str

\* the bytes a Result<Vec<u8>> holds: the stdout of stage o
BytesOf_nothing(o, log) == <<>>

BytesOf(o, log) == IF o = 0 THEN <<>> ELSE log[o].out

\* write_all on an open file: at the end of the file under O_APPEND, else at
\* the offset of the handle, which is 0 after the open
Write(cont, file, bytes) ==
    LET old == cont[file.target] IN
    [cont EXCEPT ![file.target] =
        IF file.append THEN old \o bytes
        ELSE bytes \o SubSeq(old, Len(bytes) + 1, Len(old))]

\* what the files hold after the opens of a setup_redirects: create(true)
\* makes a missing file, truncate(!append) empties the file
opened_content_no_truncate(cont, opened, fs) ==
    [f \in fs |-> IF f \in DOMAIN cont THEN cont[f] ELSE <<>>]

opened_content(cont, opened, fs) ==
    [f \in fs |->
        IF \E k \in DOMAIN opened : opened[k].target = f /\ opened[k].trunc THEN <<>>
        ELSE IF f \in DOMAIN cont THEN cont[f]
        ELSE <<>>]

\* where a stream of a stage is connected
DFile(t) == [kind |-> "file", target |-> t]
DInherit == [kind |-> "inherit", target |-> <<>>]
DPrev == [kind |-> "prev", target |-> <<>>]
DNext == [kind |-> "next", target |-> <<>>]
DCapture == [kind |-> "capture", target |-> <<>>]
DLog == [kind |-> "log", target |-> <<>>]
DNone == [kind |-> "none", target |-> <<>>]

\* the stdin of a stage: the predecessor's stdout for every stage but the
\* first; for the first the stdin redirect, else the caller's stdin (an
\* external stage) or nothing (a builtin)
stdin_of(first, builtin, rd) ==
    IF ~first THEN DPrev
    ELSE IF rd.stdin_redirect.some THEN DFile(rd.stdin_redirect.target)
    ELSE IF builtin THEN DNone
    ELSE DInherit

\* the stdout of a stage: the stdout redirect; else the caller's stdout for
\* the last stage of a pipeline run for status; else the pipe or buffer read
\* by the next stage or by the output waiter
stdout_of(last, wo, rd) ==
    IF rd.stdout_redirect.some THEN DFile(rd.stdout_redirect.target)
    ELSE IF last /\ ~wo THEN DFile(DevStdout)
    ELSE IF last THEN DCapture
    ELSE DNext

\* the stderr of a stage: the stderr redirect, else captured and logged
stderr_of(rd) ==
    IF rd.stderr_redirect.some THEN DFile(rd.stderr_redirect.target) ELSE DLog

\* what the builtin branch of Cmd::spawn does with errbuf and outbuf after the
\* callback returned cb; io: a write_all to a redirect file fails
builtin_delivery_before_check(cb, io, rd) ==
    [errTo |-> IF io THEN "failed"
               ELSE IF rd.stderr_redirect.some THEN "file" ELSE "log",
     outTo |-> IF cb = "fail" THEN "none"
               ELSE IF io THEN "failed"
               ELSE IF rd.stdout_redirect.some THEN "file" ELSE "buffer"]

builtin_delivery(cb, io, rd) ==
    IF cb = "fail" THEN [errTo |-> "none", outTo |-> "none"]
    ELSE IF io THEN [errTo |-> "failed", outTo |-> "failed"]
    ELSE [errTo |-> IF rd.stderr_redirect.some THEN "file" ELSE "log",
          outTo |-> IF rd.stdout_redirect.some THEN "file" ELSE "buffer"]

\* the stage itself, not Cmd::spawn, moves the bytes (an external child), or
\* there are none (a cd stage)
NoDelivery == [errTo |-> "none", outTo |-> "none"]

\* history record of a stage: its streams, the bytes its stdin yields
\* (inbuf), the bytes it writes to its stdout (out), whether its stdin
\* reaches end-of-file after inbuf, whether Cmd::spawn returned Ok, and where
\* Cmd::spawn delivered a builtin's errbuf and outbuf
IoRec(sin, sout, serr, inbuf, out, eof, ok, dl) ==
    [stdin |-> sin, stdout |-> sout, stderr |-> serr, inbuf |-> inbuf, out |-> out,
     eof |-> eof, ok |-> ok, errTo |-> dl.errTo, outTo |-> dl.outTo]

\* ---------------------------------------------------------------- open_file
\* OpenOptions::open resolves a relative path against the working directory
\* of the calling process
open_file(path, read_only, fs) ==
    LET t == Resolve(caller_cwd, path) IN
    IF read_only
    THEN [ok |-> t \in fs, target |-> t, fs |-> fs]
    ELSE IF path # <<>> /\ Parent(t) \in Dirs /\ t \notin Dirs
         THEN [ok |-> TRUE, target |-> t, fs |-> fs \cup {t}]
         ELSE [ok |-> FALSE, target |-> t, fs |-> fs]

\* ---------------------------------------------------------- setup_redirects
RedirInit(fs) ==
    [ok |-> TRUE, stdout_file |-> DevStdout, stderr_file |-> DevStderr,
     stdin_redirect |-> NoFile, stdout_redirect |-> NoFile, stderr_redirect |-> NoFile,
     fs |-> fs, opened |-> <<>>]

\* one iteration of the loop over self.redirects
RedirectStep_dup_inherited(st, r) ==
    LET isDup == r.tag \in {"StdoutToStderr", "StderrToStdout"}
        dup == FALSE
        path == CASE r.tag = "StdoutToStderr" -> DevStderr
                  [] r.tag = "StderrToStdout" -> DevStdout
                  [] OTHER -> r.path
        o == open_file(path, r.tag = "FileToStdin", st.fs)
        file == IF dup
                THEN IF r.tag = "StdoutToStderr"
                     THEN st.stderr_redirect ELSE st.stdout_redirect
                ELSE SomeFile(o.target, r.tag # "FileToStdin" /\ (isDup \/ r.append))
        st1 == IF dup THEN st
               ELSE [st EXCEPT !.fs = o.fs,
                               !.opened = Append(@, [op |-> "open", path |-> path,
                                                     target |-> o.target,
                                                     trunc |-> (o.ok /\ ~isDup /\ ~r.append
                                                        /\ r.tag # "FileToStdin")])]
    IN  IF ~dup /\ ~o.ok THEN [st1 EXCEPT !.ok = FALSE]
        ELSE CASE r.tag = "FileToStdin" -> [st1 EXCEPT !.stdin_redirect = file]
               [] r.tag = "StdoutToStderr" -> [st1 EXCEPT !.stdout_redirect = file]
               [] r.tag = "StderrToStdout" -> [st1 EXCEPT !.stderr_redirect = file]
               [] r.tag = "StdoutToFile" ->
                    [st1 EXCEPT !.stdout_redirect = file, !.stdout_file = r.path]
               [] r.tag = "StderrToFile" ->
                    [st1 EXCEPT !.stderr_redirect = file, !.stderr_file = r.path]

RedirectStep(st, r) ==
    LET isDup == r.tag \in {"StdoutToStderr", "StderrToStdout"}
        dup == \/ r.tag = "StdoutToStderr" /\ st.stderr_redirect.some
               \/ r.tag = "StderrToStdout" /\ st.stdout_redirect.some
        path == CASE r.tag = "StdoutToStderr" -> st.stderr_file
                  [] r.tag = "StderrToStdout" -> st.stdout_file
                  [] OTHER -> r.path
        o == open_file(path, r.tag = "FileToStdin", st.fs)
        file == IF dup
                THEN IF r.tag = "StdoutToStderr"
                     THEN st.stderr_redirect ELSE st.stdout_redirect
                ELSE SomeFile(o.target, r.tag # "FileToStdin" /\ (isDup \/ r.append))
        st1 == IF dup THEN st
               ELSE [st EXCEPT !.fs = o.fs,
                               !.opened = Append(@, [op |-> "open", path |-> path,
                                                     target |-> o.target,
                                                     trunc |-> (o.ok /\ ~isDup /\ ~r.append
                                                        /\ r.tag # "FileToStdin")])]
    IN  IF ~dup /\ ~o.ok THEN [st1 EXCEPT !.ok = FALSE]
        ELSE CASE r.tag = "FileToStdin" -> [st1 EXCEPT !.stdin_redirect = file]
               [] r.tag = "StdoutToStderr" -> [st1 EXCEPT !.stdout_redirect = file]
               [] r.tag = "StderrToStdout" -> [st1 EXCEPT !.stderr_redirect = file]
               [] r.tag = "StdoutToFile" ->
                    [st1 EXCEPT !.stdout_redirect = file, !.stdout_file = r.path]
               [] r.tag = "StderrToFile" ->
                    [st1 EXCEPT !.stderr_redirect = file, !.stderr_file = r.path]

RECURSIVE RedirectLoop(_, _)
RedirectLoop(st, rs) ==
    IF rs = <<>> \/ ~st.ok THEN st
    ELSE RedirectLoop(RedirectStep(st, Head(rs)), Tail(rs))

setup_redirects(cmd, fs) == RedirectLoop(RedirInit(fs), cmd.redirects)

\* --------------------------------------------------------------- run_cd_cmd
\* the result, and the value of *current_dir afterwards
run_cd_cmd_no_access(cmd, cur) ==
    IF Len(cmd.args) = 1 \/ Len(cmd.args) > 2
    THEN [ok |-> FALSE, dir |-> cur]
    ELSE IF Resolve(caller_cwd, cmd.args[2]) \notin Dirs
         THEN [ok |-> FALSE, dir |-> cur]
         ELSE [ok |-> TRUE, dir |-> cmd.args[2]]

run_cd_cmd(cmd, cur) ==
    IF Len(cmd.args) = 1 THEN [ok |-> FALSE, dir |-> cur]
    ELSE IF Len(cmd.args) > 2 THEN [ok |-> FALSE, dir |-> cur]
    ELSE LET dir == cmd.args[2] IN
         IF Resolve(caller_cwd, dir) \notin Dirs THEN [ok |-> FALSE, dir |-> cur]
         ELSE IF Resolve(caller_cwd, dir) \in NoExecDirs THEN [ok |-> FALSE, dir |-> cur]
         ELSE [ok |-> TRUE, dir |-> dir]

\* -------------------------------------------------------------- ProcHandle
\* (ProcHandle, String): idx is the stage the handle was made for; status is
\* what the child's wait will return ("zero", "nonzero" or "wait_err");
\* has_stdout: child.stdout holds the read end of a pipe
ProcChild(i, st, piped, cmd) ==
    [tag |-> "ProcChild", some |-> TRUE, idx |-> i, status |-> st,
     has_stdout |-> piped, cmd |-> cmd]
ProcBuf(i, some, cmd) ==
    [tag |-> "ProcBuf", some |-> some, idx |-> i, status |-> "zero",
     has_stdout |-> FALSE, cmd |-> cmd]

\* history record of a wait: the stage, who waited, the status returned and
\* how many stages had been spawned or invoked by then
Waited(h, who) ==
    [idx |-> h.idx, by |-> who, status |-> h.status, spawned |-> Len(spawnLog)]
Delivered(i, to) == [idx |-> i, to |-> to]

\* ------------------------------------------------------ WaitFun::wait_output
\* the result, the handle afterwards, and what was waited on and delivered
wait_output_no_take(h, who, to) ==
    IF h.tag = "ProcChild" /\ h.some
    THEN [res |-> CASE h.status = "wait_err" -> Fail(Err("wait", <<>>, h.idx))
                    [] h.status = "nonzero" -> Fail(Err("status", h.cmd, h.idx))
                    [] OTHER -> OkOut(IF h.has_stdout THEN h.idx ELSE 0),
          handle |-> h,
          waited |-> <<Waited(h, who)>>, delivered |-> <<>>]
    ELSE IF h.tag = "ProcBuf" /\ h.some
    THEN [res |-> OkOut(h.idx), handle |-> h,
          waited |-> <<>>, delivered |-> <<Delivered(h.idx, to)>>]
    ELSE [res |-> Ok, handle |-> h, waited |-> <<>>, delivered |-> <<>>]

wait_output(h, who, to) ==
    IF h.tag = "ProcChild" /\ h.some
    THEN [res |-> CASE h.status = "wait_err" -> Fail(Err("wait", <<>>, h.idx))
                    [] h.status = "nonzero" -> Fail(Err("status", h.cmd, h.idx))
                    [] OTHER -> OkOut(IF h.has_stdout THEN h.idx ELSE 0),
          handle |-> [h EXCEPT !.some = FALSE],
          waited |-> <<Waited(h, who)>>, delivered |-> <<>>]
    ELSE IF h.tag = "ProcBuf" /\ h.some
    THEN [res |-> OkOut(h.idx), handle |-> [h EXCEPT !.some = FALSE],
          waited |-> <<>>, delivered |-> <<Delivered(h.idx, to)>>]
    ELSE [res |-> Ok, handle |-> h, waited |-> <<>>, delivered |-> <<>>]

\* ---------------------------------------------------- WaitCmd::wait_children
\* the result, the handles left in the vector, and the children waited on
RECURSIVE wait_children_from_front(_, _)
wait_children_from_front(cs, pf) ==
    IF cs = <<>> THEN [res |-> Ok, children |-> cs, waited |-> <<>>]
    ELSE LET h == Head(cs)
             rest == Tail(cs)
         IN  IF h.tag = "ProcChild" /\ h.some
             THEN IF h.status = "wait_err"
                  THEN [res |-> Fail(Err("wait", <<>>, h.idx)), children |-> rest,
                        waited |-> <<Waited(h, "waiter")>>]
                  ELSE IF h.status = "nonzero" /\ pf
                  THEN [res |-> Fail(Err("status", h.cmd, h.idx)), children |-> rest,
                        waited |-> <<Waited(h, "waiter")>>]
                  ELSE LET r == wait_children_from_front(rest, pf)
                       IN  [r EXCEPT !.waited = <<Waited(h, "waiter")>> \o @]
             ELSE wait_children_from_front(rest, pf)

RECURSIVE wait_children(_, _)
wait_children(cs, pf) ==
    IF cs = <<>> THEN [res |-> Ok, children |-> cs, waited |-> <<>>]
    ELSE LET h == cs[Len(cs)]
             rest == SubSeq(cs, 1, Len(cs) - 1)
         IN  IF h.tag = "ProcChild" /\ h.some
             THEN IF h.status = "wait_err"
                  THEN [res |-> Fail(Err("wait", <<>>, h.idx)), children |-> rest,
                        waited |-> <<Waited(h, "waiter")>>]
                  ELSE IF h.status = "nonzero" /\ pf
                  THEN [res |-> Fail(Err("status", h.cmd, h.idx)), children |-> rest,
                        waited |-> <<Waited(h, "waiter")>>]
                  ELSE LET r == wait_children(rest, pf)
                       IN  [r EXCEPT !.waited = <<Waited(h, "waiter")>> \o @]
             ELSE wait_children(rest, pf)

\* ------------------------------------------------ WaitCmd::wait_result_nolog
\* stdout_err: writing the last builtin's buffer to the caller's stdout fails
WaitCmd_wait_result_nolog_drain_first(cs, pf, stdout_err) ==
    LET h == cs[Len(cs)]
        rest == SubSeq(cs, 1, Len(cs) - 1)
        drain == wait_children(rest, pf)
        me == IF h.tag = "ProcChild" /\ h.some
              THEN <<Waited(h, "waiter")>> ELSE <<>>
        buf == IF h.tag = "ProcBuf" /\ h.some
               THEN <<Delivered(h.idx, "stdout")>> ELSE <<>>
        lastErr == IF h.tag = "ProcChild" /\ h.some
                   THEN CASE h.status = "wait_err" -> Fail(Err("wait", <<>>, h.idx))
                          [] h.status = "nonzero" -> Fail(Err("status", h.cmd, h.idx))
                          [] OTHER -> Ok
                   ELSE IF h.tag = "ProcBuf" /\ h.some /\ stdout_err
                   THEN Fail(Err("io", <<>>, h.idx))
                   ELSE Ok
    IN  [res |-> IF ~drain.res.ok THEN drain.res ELSE lastErr,
         children |-> drain.children, waited |-> me \o drain.waited, delivered |-> buf]

WaitCmd_wait_result_nolog(cs, pf, stdout_err) ==
    LET h == cs[Len(cs)]
        rest == SubSeq(cs, 1, Len(cs) - 1)
        drain == wait_children(rest, pf)
        me == IF h.tag = "ProcChild" /\ h.some
              THEN <<Waited(h, "waiter")>> ELSE <<>>
        buf == IF h.tag = "ProcBuf" /\ h.some
               THEN <<Delivered(h.idx, "stdout")>> ELSE <<>>
        lastErr == IF h.tag = "ProcChild" /\ h.some
                   THEN CASE h.status = "wait_err" -> Fail(Err("wait", <<>>, h.idx))
                          [] h.status = "nonzero" -> Fail(Err("status", h.cmd, h.idx))
                          [] OTHER -> Ok
                   ELSE IF h.tag = "ProcBuf" /\ h.some /\ stdout_err
                   THEN Fail(Err("io", <<>>, h.idx))
                   ELSE Ok
    IN  \* on an error of the last stage: let _ = wait_children(..); return Err(..)
        \* otherwise the result is that of wait_children
        [res |-> IF ~lastErr.ok THEN lastErr ELSE drain.res,
         children |-> drain.children, waited |-> me \o drain.waited, delivered |-> buf]

\* ------------------------------------------------ WaitFun::wait_result_nolog
\* (wait_raw_result_nolog has the same shape; the String is made from the
\* bytes of res by from_utf8_lossy and trim_newline)
WaitFun_wait_result_nolog(cs, pf) ==
    LET h == cs[Len(cs)]
        rest == SubSeq(cs, 1, Len(cs) - 1)
        wait_last == wait_output(h, "waiter", "result")
        drain == wait_children(rest, pf)
    IN  [res |-> IF ~wait_last.res.ok THEN wait_last.res
                 ELSE IF ~drain.res.ok THEN drain.res
                 ELSE wait_last.res,
         children |-> drain.children,
         waited |-> wait_last.waited \o drain.waited,
         delivered |-> wait_last.delivered]

\* ------------------------------------------------- construction of a stage
\* a String is a sequence of characters
Str_cd == <<"c", "d">>
Str_fun == <<"f", "u", "n">>
Str_ls == <<"l", "s">>

\* c.is_ascii_alphanumeric() || c == '_'
NameChars == {"A", "B", "c", "d", "f", "u", "n", "l", "s", "x", "1", "2", "_"}

\* the arguments the inputs give to add_arg
ArgChoices ==
    {<<"A", "=", "1">>, <<"A", "=", "2">>, <<"_", "B", "=", "x">>,
     <<"=", "x">>, <<"A", "=", "1", "=", "2">>, <<"A", "-", "=", "1">>,
     <<>>, Str_cd, Str_fun, Str_ls}

\* the names and the callbacks the inputs give to export_cmd
RegNames == {Str_fun, Str_ls}
Callbacks == {"fn1", "fn2"}

\* lazy_static CMD_MAP: "" is registered from the start
InitMap == [name \in {<<>>} |-> "builtin_true"]

\* HashMap::insert
insert_alone(map, key, value) == [k \in {key} |-> value]

insert(map, key, value) ==
    [k \in DOMAIN map \cup {key} |-> IF k = key THEN value ELSE map[k]]

\* HashMap's Index: the value under the key, or a panic
index(map, key) == IF key \in DOMAIN map THEN map[key] ELSE "panic"

\* str::split(sep).collect(): the pieces between the separators
RECURSIVE split(_, _)
split(str, sep) ==
    IF \A k \in DOMAIN str : str[k] # sep THEN <<str>>
    ELSE LET k == CHOOSE m \in DOMAIN str :
                      str[m] = sep /\ \A n \in 1..(m - 1) : str[n] # sep
         IN  <<SubSeq(str, 1, k - 1)>> \o split(SubSeq(str, k + 1, Len(str)), sep)

\* Cmd::default()
Cmd_default ==
    [in_cmd_map |-> TRUE, args |-> <<>>, envs |-> [name \in {} |-> <<>>],
     std_cmd |-> FALSE]

\* Cmd::arg0 of a stage whose arguments are Strings
arg0_str(c) == IF c.args = <<>> THEN <<>> ELSE c.args[1]

\* Cmd::add_arg
add_arg_any_position(c, arg, map) ==
    LET v == split(arg, "=") IN
    IF Len(v) = 2 /\ \A k \in DOMAIN v[1] : v[1][k] \in NameChars
    THEN [c EXCEPT !.envs = insert(c.envs, v[1], v[2])]
    ELSE [c EXCEPT !.in_cmd_map = IF c.args = <<>> THEN arg \in DOMAIN map ELSE @,
                   !.args = Append(@, arg)]

add_arg(c, arg, map) ==
    LET v == split(arg, "=") IN
    IF c.args = <<>> /\ Len(v) = 2
            /\ \A k \in DOMAIN v[1] : v[1][k] \in NameChars
    THEN [c EXCEPT !.envs = insert(c.envs, v[1], v[2])]
    ELSE [c EXCEPT !.in_cmd_map = IF c.args = <<>> THEN arg \in DOMAIN map ELSE @,
                   !.args = Append(@, arg)]

\* Cmd::gen_command
gen_command(c) == IF c.in_cmd_map THEN c ELSE [c EXCEPT !.std_cmd = TRUE]

\* the branch Cmd::spawn takes, given the registry at the time of the spawn
exec_kind_lookup(c, map) ==
    IF arg0_str(c) = Str_cd THEN "cd"
    ELSE IF arg0_str(c) \in DOMAIN map THEN "builtin"
    ELSE "external"

exec_kind(c, map) ==
    IF arg0_str(c) = Str_cd THEN "cd"
    ELSE IF c.in_cmd_map THEN "builtin"
    ELSE "external"

NotExecuted == [kind |-> "none", callback |-> "none"]

\* ------------------------------------------------------------------- Init
InitFrom(I, O) ==
    /\ \E inp \in I :
          /\ group = inp.group
          /\ entry = inp.entry
          /\ pipefail = inp.pipefail
    /\ caller_cwd = DirHome
    /\ files = InitFiles
    /\ current_dir = <<>>
    /\ pc = "setup"
    /\ gi = 1
    /\ inOr = FALSE
    /\ si = 1
    /\ redir = <<>>
    /\ children = <<>>
    /\ ret = Ok
    /\ result = Ok
    /\ setupFailed = FALSE
    /\ dirAtStart = <<>>
    /\ spawnLog = <<>>
    /\ waitLog = <<>>
    /\ bufLog = <<>>
    /\ pathLog = <<>>
    /\ waiterRan = FALSE
    /\ runLog = <<>>
    /\ soleCd = FALSE
    /\ callerWaits = FALSE
    /\ outs = O
    /\ content = [f \in InitFiles |-> InitContent(f)]
    /\ ioLog = <<>>
    /\ output = <<>>
    /\ CMD_MAP = InitMap
    /\ stage = Cmd_default
    /\ argLog = <<>>
    /\ mapAtArg0 = {}
    /\ bpc = "build"
    /\ executed = NotExecuted

Init == InitFrom(Inputs, DefaultOuts)

\* ------------------------------------------------------------ Cmds::spawn
\* where Cmds::spawn goes after setup_redirects of stage i of n returned
after_setup_ignoring_error(ok, i, n) ==
    IF i < n THEN [pc |-> "setup", si |-> i + 1, ret |-> Ok]
    ELSE [pc |-> "walk", si |-> 1, ret |-> Ok]

after_setup(ok, i, n) ==
    IF ~ok THEN [pc |-> "ret", si |-> i, ret |-> Fail(Err("redirect", <<>>, i))]
    ELSE IF i < n THEN [pc |-> "setup", si |-> i + 1, ret |-> Ok]
    ELSE [pc |-> "walk", si |-> 1, ret |-> Ok]

\* the first loop of Cmds::spawn, one stage at a time
SetupRedirects ==
    /\ pc = "setup"
    /\ LET st == setup_redirects(CurCmd, files)
           nxt == after_setup(st.ok, si, Len(CurCmds))
       IN  /\ files' = st.fs
           /\ redir' = Append(redir, [stdin_redirect |-> st.stdin_redirect,
                                      stdout_redirect |-> st.stdout_redirect,
                                      stderr_redirect |-> st.stderr_redirect])
           /\ pathLog' = pathLog \o st.opened
           /\ content' = opened_content(content, st.opened, st.fs)
           /\ setupFailed' = (setupFailed \/ ~st.ok)
           /\ pc' = nxt.pc
           /\ si' = nxt.si
           /\ ret' = nxt.ret
    /\ UNCHANGED <<bvars, group, entry, pipefail, caller_cwd, current_dir, gi, inOr, children,
                   result, dirAtStart, spawnLog, waitLog, bufLog, waiterRan, runLog,
                   soleCd, callerWaits, outs, ioLog, output>>

\* who gets the WaitCmd that Cmds::spawn returns: Cmds::run_cmd / run_fun call
\* its wait_result at once ("wait"); GroupCmds::spawn / spawn_with_output
\* return it to the caller ("spawned")
after_walk_waiting(e) == "wait"

after_walk(e) == IF e \in SpawnEntries THEN "spawned" ELSE "wait"

\* the second loop of Cmds::spawn pushes the handle and goes on, or returns
\* WaitCmd(children)
Pushed(cs, h) ==
    /\ children' = Append(cs, h)
    /\ IF si < Len(CurCmds)
       THEN pc' = "walk" /\ si' = si + 1
       ELSE pc' = after_walk(entry) /\ si' = si
    /\ ret' = ret

\* the ? of the second loop: Cmds::spawn returns the error and the vector of
\* handles is dropped (dropping a Child neither waits for it nor kills it)
Failed(e) ==
    /\ children' = <<>>
    /\ pc' = "ret"
    /\ si' = si
    /\ ret' = Fail(e)

is_first == si = 1
is_last == si = Len(CurCmds)

\* Cmd::spawn, the cd branch
SpawnCd ==
    /\ pc = "walk"
    /\ arg0(CurCmd) = "cd"
    /\ LET r == run_cd_cmd(CurCmd, current_dir) IN
       /\ current_dir' = r.dir
       /\ pathLog' = IF Len(CurCmd.args) = 2
                     THEN Append(pathLog, [op |-> "cd", path |-> CurCmd.args[2],
                                   target |-> Resolve(caller_cwd, CurCmd.args[2])])
                     ELSE pathLog
       /\ IF r.ok
          THEN /\ Pushed(children, ProcBuf(si, FALSE, debug_str(CurCmd)))
               /\ spawnLog' = Append(spawnLog, si)
               /\ ioLog' = Append(ioLog, IoRec(DNone, DNone, DNone, <<>>, <<>>, TRUE, TRUE,
                                                 NoDelivery))
               /\ soleCd' = (Len(CurCmds) = 1)
          ELSE /\ Failed(Err("cd", debug_str(CurCmd), si))
               /\ UNCHANGED <<spawnLog, soleCd, ioLog>>
    /\ UNCHANGED <<bvars, group, entry, pipefail, caller_cwd, files, gi, inOr, redir, result,
                   setupFailed, dirAtStart, waitLog, bufLog, waiterRan, runLog,
                   callerWaits, outs, content, output>>

\* Cmd::spawn, the builtin branch.  cb: what the callback returns; io: a
\* write of errbuf or outbuf to a redirect file fails
SpawnBuiltin ==
    /\ pc = "walk"
    /\ arg0(CurCmd) # "cd"
    /\ CurCmd.in_cmd_map
    /\ \E cb \in {"ok", "fail"}, io \in BOOLEAN, t \in outs :
        LET w == IF is_first THEN [res |-> Ok, waited |-> <<>>, delivered |-> <<>>]
                 ELSE wait_output(children[Len(children)], "walk", "inbuf")
            cs == IF is_first THEN children
                  ELSE [children EXCEPT ![Len(children)] = w.handle]
            rd == redir[si]
            \* env.inbuf and env.outbuf
            inbuf == IF ~is_first THEN BytesOf(w.res.out, ioLog)
                     ELSE IF rd.stdin_redirect.some
                     THEN content[rd.stdin_redirect.target]
                     ELSE <<>>
            outbuf == Subst(t, si)
            finished == w.res.ok /\ cb = "ok" /\ ~io
            dl == builtin_delivery(cb, io, rd)
        IN  /\ io => (cb = "ok" /\ w.res.ok
                        /\ (rd.stdout_redirect.some \/ rd.stderr_redirect.some))
            /\ ~w.res.ok => cb = "ok"
            /\ ioLog' = IF ~w.res.ok THEN ioLog
                        ELSE Append(ioLog, IoRec(stdin_of(is_first, TRUE, rd),
                                                 stdout_of(is_last, with_output, rd),
                                                 stderr_of(rd), inbuf, outbuf, TRUE,
                                                 finished, dl))
            /\ content' = IF w.res.ok /\ dl.outTo = "file"
                          THEN Write(content, rd.stdout_redirect, outbuf)
                          ELSE content
            /\ waitLog' = waitLog \o w.waited
            /\ bufLog' = bufLog \o w.delivered
            /\ IF ~w.res.ok
               THEN /\ Failed(w.res.err)
                    /\ UNCHANGED <<spawnLog, pathLog, redir>>
               ELSE /\ spawnLog' = Append(spawnLog, si)
                    /\ pathLog' = Append(pathLog, [op |-> "env", path |-> current_dir,
                                                   target |-> current_dir])
                    /\ IF cb = "fail"
                       THEN /\ Failed(Err("builtin", <<>>, si))
                            /\ redir' = [redir EXCEPT ![si].stdin_redirect = NoFile]
                       ELSE IF io
                       THEN /\ Failed(Err("io", <<>>, si))
                            /\ redir' = [redir EXCEPT ![si] =
                                   [stdin_redirect |-> NoFile,
                                    stdout_redirect |-> NoFile,
                                    stderr_redirect |-> NoFile]]
                       ELSE /\ Pushed(cs, ProcBuf(si, ~rd.stdout_redirect.some,
                                                   debug_str(CurCmd)))
                            /\ redir' = [redir EXCEPT ![si] =
                                   [stdin_redirect |-> NoFile,
                                    stdout_redirect |-> NoFile,
                                    stderr_redirect |-> NoFile]]
    /\ UNCHANGED <<bvars, group, entry, pipefail, caller_cwd, files, current_dir, gi, inOr,
                   result, setupFailed, dirAtStart, waiterRan, runLog, soleCd,
                   callerWaits, outs, output>>

\* Cmd::spawn, the external branch.  o: the spawn fails, or what the child's
\* wait will return; wfail: writing the predecessor's buffer to the child's
\* stdin fails
SpawnExternal ==
    /\ pc = "walk"
    /\ arg0(CurCmd) # "cd"
    /\ ~CurCmd.in_cmd_map
    /\ \E o \in {"spawn_err", "zero", "nonzero", "wait_err"}, wfail \in BOOLEAN,
          t \in outs :
        LET prev == children[Len(children)]
            bufPrev == ~is_first /\ prev.tag = "ProcBuf" /\ prev.some
            pipePrev == ~is_first /\ prev.tag = "ProcChild" /\ prev.some
                            /\ prev.has_stdout
            rd == redir[si]
            \* what the child reads from its stdin and writes to its stdout
            inbuf == IF is_first
                     THEN IF rd.stdin_redirect.some
                          THEN content[rd.stdin_redirect.target] ELSE <<>>
                     ELSE IF pipePrev \/ (bufPrev /\ ~wfail)
                     THEN BytesOf(prev.idx, ioLog)
                     ELSE <<>>
            out == Subst(t, si)
            piped == ~redir[si].stdout_redirect.some /\ ~(is_last /\ ~with_output)
            \* child.stdout.take() of the predecessor becomes the stdin
            cs1 == IF ~is_first /\ prev.tag = "ProcChild" /\ prev.some
                   THEN [children EXCEPT ![Len(children)].has_stdout = FALSE]
                   ELSE children
            \* ss.take() of the predecessor's buffer
            cs2 == IF bufPrev THEN [cs1 EXCEPT ![Len(cs1)].some = FALSE] ELSE cs1
        IN  /\ wfail => (bufPrev /\ o # "spawn_err")
            /\ pathLog' = IF current_dir # <<>>
                          THEN Append(pathLog, [op |-> "chdir", path |-> current_dir,
                                        target |-> Resolve(caller_cwd, current_dir)])
                          ELSE pathLog
            /\ IF o = "spawn_err"
               THEN /\ Failed(Err("spawn", <<>>, si))
                    /\ UNCHANGED <<spawnLog, bufLog, ioLog, content>>
               ELSE /\ spawnLog' = Append(spawnLog, si)
                    /\ ioLog' = Append(ioLog, IoRec(stdin_of(is_first, FALSE, rd),
                                                    stdout_of(is_last, with_output, rd),
                                                    stderr_of(rd), inbuf, out,
                                                    is_first \/ pipePrev \/ bufPrev,
                                                    ~wfail, NoDelivery))
                    /\ content' =
                          IF rd.stdout_redirect.some
                          THEN Write(content, rd.stdout_redirect, out)
                          ELSE IF is_last /\ ~with_output
                          THEN Write(content, SomeFile(DevStdout, TRUE), out)
                          ELSE content
                    /\ bufLog' = IF bufPrev
                                 THEN Append(bufLog, Delivered(prev.idx, "stdin"))
                                 ELSE bufLog
                    /\ IF wfail
                       THEN Failed(Err("io", <<>>, si))
                       ELSE Pushed(cs2, ProcChild(si, o, piped, debug_str(CurCmd)))
    /\ UNCHANGED <<bvars, group, entry, pipefail, caller_cwd, files, current_dir, gi, inOr,
                   redir, result, setupFailed, dirAtStart, waitLog, waiterRan, runLog,
                   soleCd, callerWaits, outs, output>>

\* ------------------------------------------------------------- the waiters
\* the caller of GroupCmds::spawn / spawn_with_output calls wait_result on the
\* waiter it was handed
CallerWait ==
    /\ pc = "spawned"
    /\ pc' = "wait"
    /\ callerWaits' = TRUE
    /\ UNCHANGED <<bvars, group, entry, pipefail, caller_cwd, files, current_dir, gi, inOr, si,
                   redir, children, ret, result, setupFailed, dirAtStart, spawnLog,
                   waitLog, bufLog, pathLog, waiterRan, runLog, soleCd, outs, content,
                   ioLog, output>>

\* wait_result of the waiter that Cmds::spawn returned, called by Cmds::run_cmd
\* and Cmds::run_fun, or by the caller of spawn / spawn_with_output
Wait ==
    /\ pc = "wait"
    /\ \E stdout_err \in BOOLEAN :
        LET h == children[Len(children)]
            w == IF with_output
                 THEN WaitFun_wait_result_nolog(children, pipefail)
                 ELSE WaitCmd_wait_result_nolog(children, pipefail, stdout_err)
        IN  /\ stdout_err => (~with_output /\ h.tag = "ProcBuf" /\ h.some)
            /\ children' = w.children
            /\ waitLog' = waitLog \o w.waited
            /\ bufLog' = bufLog \o w.delivered
            /\ ret' = w.res
            \* stdout().write_all(&s) of the last builtin's buffer
            /\ content' = IF ~with_output /\ h.tag = "ProcBuf" /\ h.some /\ ~stdout_err
                          THEN Write(content, SomeFile(DevStdout, TRUE),
                                     BytesOf(h.idx, ioLog))
                          ELSE content
            \* the String of WaitFun::wait_result_nolog
            /\ output' = IF with_output /\ w.res.ok
                         THEN trim_newline(from_utf8_lossy(BytesOf(w.res.out, ioLog)))
                         ELSE output
    /\ waiterRan' = TRUE
    /\ pc' = "ret"
    /\ UNCHANGED <<bvars, group, entry, pipefail, caller_cwd, files, current_dir, gi, inOr, si,
                   redir, result, setupFailed, dirAtStart, spawnLog, pathLog, runLog,
                   soleCd, callerWaits, outs, ioLog>>

\* ---------------------------------------------------------- the group driver
\* what GroupCmds::run_cmd / run_fun does with the result r of a pipeline of
\* the pair: go on to the next pair, run the fallback, or return the error
group_on_ret_keep_going(pair, is_or, r) ==
    IF r.ok THEN "next"
    ELSE IF ~is_or /\ pair.has_or THEN "fallback"
    ELSE IF is_or THEN "return"
    ELSE "next"

group_on_ret(pair, is_or, r) ==
    IF r.ok THEN "next"
    ELSE IF ~is_or /\ pair.has_or THEN "fallback"
    ELSE "return"

\* the current_dir that the group hands on after a pipeline returned r: the
\* one field self.current_dir, which every pipeline and fallback borrows
current_dir_rolled_back(r, cur, start) == IF r.ok THEN cur ELSE start

current_dir_after(r, cur, start) == cur

\* Cmds::run_cmd / Cmds::run_fun is entered: Cmds::spawn starts
StartPipeline(g, o) ==
    /\ gi' = g
    /\ inOr' = o
    /\ pc' = "setup"
    /\ si' = 1
    /\ redir' = <<>>
    /\ children' = <<>>
    /\ setupFailed' = FALSE
    /\ dirAtStart' = current_dir'
    /\ spawnLog' = <<>>
    /\ waitLog' = <<>>
    /\ bufLog' = <<>>
    /\ pathLog' = <<>>
    /\ waiterRan' = FALSE
    /\ ioLog' = <<>>
    /\ result' = result

\* the entry point returns r
Return(r) ==
    /\ pc' = "done"
    /\ result' = r
    /\ UNCHANGED <<gi, inOr, si, redir, children, setupFailed, dirAtStart, spawnLog,
                   waitLog, bufLog, pathLog, waiterRan, ioLog>>

\* GroupCmds::run_cmd and GroupCmds::run_fun, from the return of one pipeline
\* to the start of the next (or to the return of the entry point)
GroupStep ==
    /\ pc = "ret"
    /\ runLog' = Append(runLog, [gi |-> gi, is_or |-> inOr, res |-> ret,
                                  with_output |-> with_output, dir |-> current_dir])
    /\ current_dir' = current_dir_after(ret, current_dir, dirAtStart)
    /\ LET what == group_on_ret(CurPair, inOr, ret) IN
       CASE entry \in SpawnEntries -> Return(ret)
         [] entry \notin SpawnEntries /\ what = "fallback" -> StartPipeline(gi, TRUE)
         [] entry \notin SpawnEntries /\ what = "return" -> Return(Fail(ret.err))
         [] entry \notin SpawnEntries /\ what = "next" ->
               IF gi < Len(group) THEN StartPipeline(gi + 1, FALSE)
               ELSE Return(IF entry = "run_fun" THEN ret ELSE Ok)
    /\ UNCHANGED <<bvars, group, entry, pipefail, caller_cwd, files, ret, soleCd,
                   callerWaits, outs, content, output>>

Next ==
    \/ SetupRedirects
    \/ SpawnCd
    \/ SpawnBuiltin
    \/ SpawnExternal
    \/ Wait
    \/ GroupStep

Spec == Init /\ [][Next]_vars

\* GroupCmds::spawn and GroupCmds::spawn_with_output, and the caller's wait
InitSpawn == InitFrom(InputsSpawn, DefaultOuts)

NextSpawn ==
    \/ SetupRedirects
    \/ SpawnCd
    \/ SpawnBuiltin
    \/ SpawnExternal
    \/ CallerWait
    \/ Wait
    \/ GroupStep

SpecSpawn == InitSpawn /\ [][NextSpawn]_vars

\* Cmds::run_cmd and Cmds::run_fun on the inputs that exercise the streams
InitIO == InitFrom(InputsIO, DefaultOuts)

SpecIO == InitIO /\ [][Next]_vars

\* Cmds::run_fun on the inputs that exercise the output waiter
InitTrim == InitFrom(InputsTrim, TrimOuts)

SpecTrim == InitTrim /\ [][Next]_vars

\* pipelines with a cd stage, in a group
InitCd == InitFrom(InputsCd, DefaultOuts)

SpecCd == InitCd /\ [][Next]_vars

\* ------------------------------------------------- construction of a stage
\* export_cmd(cmd, func), at any time before the stage is spawned
ExportCmd ==
    /\ bpc # "spawned"
    /\ \E name \in RegNames, func \in Callbacks :
          CMD_MAP' = insert(CMD_MAP, name, func)
    /\ UNCHANGED <<mvars, stage, argLog, mapAtArg0, bpc, executed>>

\* one add_arg of the add_args loop
AddArg ==
    /\ bpc = "build"
    /\ Len(argLog) < MaxArgs
    /\ \E arg \in ArgChoices :
          /\ stage' = add_arg(stage, arg, CMD_MAP)
          /\ argLog' = Append(argLog, arg)
          /\ mapAtArg0' = IF stage.args = <<>> /\ stage'.args # <<>>
                          THEN DOMAIN CMD_MAP ELSE mapAtArg0
    /\ UNCHANGED <<mvars, CMD_MAP, bpc, executed>>

\* Cmds::pipe(cmd)
PipeStage ==
    /\ bpc = "build"
    /\ stage' = gen_command(stage)
    /\ bpc' = "piped"
    /\ UNCHANGED <<mvars, CMD_MAP, argLog, mapAtArg0, executed>>

\* Cmd::spawn picks its branch; the builtin branch looks the callback up
SpawnStage ==
    /\ bpc = "piped"
    /\ LET kind == exec_kind(stage, CMD_MAP) IN
       executed' = [kind |-> kind,
                    callback |-> IF kind = "builtin" THEN index(CMD_MAP, arg0_str(stage))
                                 ELSE "none"]
    /\ bpc' = "spawned"
    /\ UNCHANGED <<mvars, CMD_MAP, stage, argLog, mapAtArg0>>

\* no pipeline has been added to the group yet
InitBuild ==
    InitFrom({[group |-> <<>>, entry |-> "run_cmd", pipefail |-> TRUE]}, DefaultOuts)

NextBuild ==
    \/ ExportCmd
    \/ AddArg
    \/ PipeStage
    \/ SpawnStage

SpecBuild == InitBuild /\ [][NextBuild]_vars

\* ---------------------------------------------------------------- history
IsExt(c) == arg0(c) # "cd" /\ ~c.in_cmd_map
IsBuiltin(c) == arg0(c) # "cd" /\ c.in_cmd_map

Range(f) == {f[k] : k \in DOMAIN f}

\* the external stages of the pipeline at hand that were spawned
SpawnedExt == {i \in Range(spawnLog) : IsExt(CurCmds[i])}

WaitCount(i) == Cardinality({k \in DOMAIN waitLog : waitLog[k].idx = i})
BufCount(i) == Cardinality({k \in DOMAIN bufLog : bufLog[k].idx = i})

\* the pipeline at hand has returned its result to the group driver
Returned == pc = "ret"

\* ------------------------------------------------- blocking and termination
\* The children here are programs that exit once they have read end-of-file
\* on their stdin, and not before.  The stdin of a child is: the caller's
\* stdin or a file (first stage), which ends; the stdout pipe of the external
\* stage before it, which ends when that stage exits; a fresh pipe whose write
\* end was taken, written to and dropped (after a builtin's buffer), which
\* ends; or a fresh pipe whose write end stays in child.stdin, which does not
\* end while the parent holds it (ios[i].eof is FALSE).
RECURSIVE exits_unaided(_, _, _)
exits_unaided(ios, cmds, i) ==
    IF ~ios[i].eof THEN FALSE
    ELSE IF i > 1 /\ IsExt(cmds[i - 1]) THEN exits_unaided(ios, cmds, i - 1)
    ELSE TRUE

\* Child::wait and Child::wait_with_output close child.stdin before they
\* wait: the call returns if that gives the child its end-of-file, or if the
\* child exits anyway
wait_returns(ios, cmds, i) ==
    IsExt(cmds[i]) => (~ios[i].eof \/ exits_unaided(ios, cmds, i))

\* every wait that the step at hand makes returns
NewWaitsReturn ==
    \A k \in (Len(waitLog) + 1)..Len(waitLog') :
        wait_returns(ioLog, CurCmds, waitLog'[k].idx)

\* the builtin branch of Cmd::spawn gets past wait_output of its predecessor
SpawnBuiltinLive == SpawnBuiltin /\ NewWaitsReturn

\* the waiter gets past each of its waits
WaitLive == Wait /\ NewWaitsReturn

\* one pipeline, under each of the four entry points
InputsLive ==
    {[group |-> <<Pair(p)>>, entry |-> e, pipefail |-> pf] :
        p \in SeqsUpTo(PipeStages, MaxStages), e \in Entries \cup SpawnEntries,
        pf \in BOOLEAN}

InitLive == InitFrom(InputsLive, DefaultOuts)

NextLive ==
    \/ SetupRedirects
    \/ SpawnCd
    \/ SpawnBuiltinLive
    \/ SpawnExternal
    \/ CallerWait
    \/ WaitLive
    \/ GroupStep

\* the one thread of the caller goes on whenever it is not blocked
SpecLive == InitLive /\ [][NextLive]_vars /\ WF_vars(NextLive)

\* ------------------------------------------------------------------ claims

\* C1: every stage's redirects are set up before any stage is spawned: once
\* a setup_redirects of the pipeline has failed, no child has been spawned,
\* no builtin invoked, no cd applied and nothing waited on or delivered; and
\* the walk starts only when every stage has been set up.
C1_RedirectsBeforeSpawn ==
    /\ setupFailed =>
          /\ spawnLog = <<>> /\ waitLog = <<>> /\ bufLog = <<>> /\ children = <<>>
          /\ current_dir = dirAtStart
          /\ \A k \in DOMAIN pathLog : pathLog[k].op = "open"
          /\ pc \in {"ret", "done"} /\ ~ret.ok /\ ret.err.kind = "redirect"
    /\ pc = "setup" => spawnLog = <<>> /\ children = <<>>
    /\ pc = "walk" => Len(redir) = Len(CurCmds)

\* a redirect of the second stage fails after the first stage was set up
C1_Witness ==
    /\ Returned /\ setupFailed /\ si = 2 /\ IsExt(CurCmds[1])

\* C2 (as claimed): when the waiter returns an error, every spawned child has
\* been waited on.
C2_WaiterErrorWaitsAll ==
    (Returned /\ waiterRan /\ ~ret.ok) => \A i \in SpawnedExt : WaitCount(i) >= 1

\* C3 (as claimed): when the walk over the stages fails, every child spawned
\* so far has been waited on before the error is returned.
C3_WalkErrorWaitsAll ==
    (Returned /\ ~waiterRan /\ ~setupFailed /\ ~ret.ok) =>
        \A i \in SpawnedExt : WaitCount(i) >= 1

C5_PipefailToggle ==
    /\ (Returned /\ ~pipefail /\ ~ret.ok) =>
          ~(ret.err.kind = "status" /\ ret.err.idx < Len(CurCmds))
    /\ (Returned /\ pipefail
          /\ \E k \in DOMAIN waitLog :
                waitLog[k].idx < Len(CurCmds) /\ waitLog[k].status = "nonzero")
       => ~ret.ok

\* C6: a non-zero exit of the final stage makes the pipeline fail whatever
\* CMD_LIB_PIPEFAIL is, and the error is the final stage's even when earlier
\* stages exited non-zero too.
C6_FinalStageError ==
    (Returned /\ \E k \in DOMAIN waitLog :
                    waitLog[k].idx = Len(CurCmds) /\ waitLog[k].status = "nonzero")
    => /\ ~ret.ok
       /\ ret.err = Err("status", debug_str(CurCmds[Len(CurCmds)]), Len(CurCmds))

\* the final stage and an earlier, different stage both exited non-zero
\* under the default pipefail
C6_Witness ==
    /\ Returned /\ pipefail
    /\ \E k \in DOMAIN waitLog :
          waitLog[k].idx = Len(CurCmds) /\ waitLog[k].status = "nonzero"
    /\ \E k \in DOMAIN waitLog :
          /\ waitLog[k].idx < Len(CurCmds) /\ waitLog[k].status = "nonzero"
          /\ debug_str(CurCmds[waitLog[k].idx]) # debug_str(CurCmds[Len(CurCmds)])

\* C7 (as claimed): stages are spawned left to right and children are
\* awaited strictly right to left.
C7_AwaitRightToLeft ==
    /\ \A k \in DOMAIN spawnLog : spawnLog[k] = k
    /\ \A k, l \in DOMAIN waitLog : k < l => waitLog[k].idx > waitLog[l].idx

\* C7 (amended): stages are spawned left to right; the waiter waits on a
\* child only after every stage was spawned and every spawned child to its
\* right has been waited on; a child waited on during the walk is the
\* predecessor of a builtin stage, waited on before that builtin is invoked.
C7_AwaitOrder ==
    /\ \A k \in DOMAIN spawnLog : spawnLog[k] = k
    /\ \A k \in DOMAIN waitLog :
          LET i == waitLog[k].idx IN
          IF waitLog[k].by = "waiter"
          THEN /\ waitLog[k].spawned = Len(CurCmds)
               /\ \A j \in SpawnedExt :
                     j > i => \E l \in 1..(k - 1) : waitLog[l].idx = j
          ELSE /\ i < Len(CurCmds) /\ IsBuiltin(CurCmds[i + 1])
               /\ waitLog[k].spawned = i

\* a child was waited on during the walk and a child to its right by the
\* waiter afterwards
C7_Witness ==
    /\ Returned /\ ret.ok /\ Len(waitLog) = 2
    /\ waitLog[1].by = "walk" /\ waitLog[2].by = "waiter"
    /\ waitLog[1].idx < waitLog[2].idx

\* C8 (as claimed): in a pipeline that starts after a sole-stage cd D, every
\* path handed to the operating system (redirect targets, cd operands, the
\* children's working directory, the builtins' current_dir) is resolved
\* against D, and the caller's working directory is unchanged.
C8_CdLocality ==
    /\ caller_cwd = DirHome
    /\ (soleCd /\ current_dir = dirAtStart /\ IsAbs(current_dir)) =>
          \A k \in DOMAIN pathLog :
              pathLog[k].target = Resolve(current_dir, pathLog[k].path)

\* C9: current_dir changes only in the cd branch of Cmd::spawn, to the one
\* operand, which names an existing directory the caller may enter; a cd
\* that fails a check returns an error and leaves current_dir as it was.
C9_CdOnly ==
    [][LET valid == /\ Len(CurCmd.args) = 2
                    /\ Resolve(caller_cwd, CurCmd.args[2]) \in Dirs \ NoExecDirs
       IN  /\ current_dir' # current_dir =>
                 /\ pc = "walk" /\ arg0(CurCmd) = "cd" /\ valid
                 /\ current_dir' = CurCmd.args[2]
           /\ (pc = "walk" /\ arg0(CurCmd) = "cd" /\ ~valid) =>
                 /\ current_dir' = current_dir
                 /\ pc' = "ret" /\ ~ret'.ok /\ ret'.err.kind = "cd"]_vars

\* a cd failed a check after an earlier cd had set current_dir
C9_Witness ==
    /\ Returned /\ ~ret.ok /\ ret.err.kind = "cd" /\ current_dir = DirA

\* what GroupCmds::run_cmd may run after the pipeline logged as e
FollowsInGroup(e, g, o) ==
    IF e.res.ok THEN g = e.gi + 1 /\ ~o
    ELSE ~e.is_or /\ group[e.gi].has_or /\ g = e.gi /\ o

\* C10: the pipelines run in order; a fallback runs only right after its
\* primary failed; after a failure without fallback, or a failed fallback,
\* nothing else runs and that error is returned; after a successful
\* fallback the next pair runs; success is returned only after the last pair.
C10_GroupRunCmd ==
    /\ \A k \in DOMAIN runLog :
          IF k = 1 THEN runLog[k].gi = 1 /\ ~runLog[k].is_or
          ELSE FollowsInGroup(runLog[k - 1], runLog[k].gi, runLog[k].is_or)
    /\ (pc # "done" /\ runLog # <<>>) => FollowsInGroup(runLog[Len(runLog)], gi, inOr)
    /\ pc = "done" =>
          LET last == runLog[Len(runLog)] IN
          IF result.ok THEN last.res.ok /\ last.gi = Len(group)
          ELSE /\ ~last.res.ok /\ result.err = last.res.err
               /\ (last.is_or \/ ~group[last.gi].has_or)

\* run_cmd returned success although the first pipeline failed: its fallback
\* succeeded and the second pair was run
C10_Witness ==
    /\ pc = "done" /\ entry = "run_cmd" /\ result.ok
    /\ Len(runLog) = 3 /\ ~runLog[1].res.ok /\ runLog[2].is_or /\ runLog[3].gi = 2

\* C11: run_fun runs every pair but the last for status and the last pair
\* (and its fallback) as output-producing, in order and with the fallback
\* rule of run_cmd; the last pair is reached only when every earlier pair
\* succeeded or was recovered; what run_fun returns is the result of the
\* pipeline run last: its output, or its error.
C11_GroupRunFun ==
    entry = "run_fun" =>
      /\ \A k \in DOMAIN runLog :
            /\ runLog[k].with_output = (runLog[k].gi = Len(group))
            /\ IF k = 1 THEN runLog[k].gi = 1 /\ ~runLog[k].is_or
               ELSE FollowsInGroup(runLog[k - 1], runLog[k].gi, runLog[k].is_or)
      /\ pc = "done" =>
            LET last == runLog[Len(runLog)] IN
            /\ result = last.res
            /\ result.ok => last.gi = Len(group)
            /\ result.ok =>
                  output = trim_newline(from_utf8_lossy(BytesOf(result.out, ioLog)))
            /\ ~result.ok => (last.is_or \/ ~group[last.gi].has_or)
            /\ \A k \in 1..(Len(runLog) - 1) :
                  runLog[k].res.ok \/ (~runLog[k].is_or /\ group[runLog[k].gi].has_or)

\* run_fun returned the output of the last pair's fallback, after the first
\* pair had been run for status and the last pair itself had failed
C11_Witness ==
    /\ pc = "done" /\ entry = "run_fun" /\ result.ok /\ result.out > 0
    /\ Len(group) = 2 /\ Len(runLog) = 3
    /\ runLog[1].res.ok /\ ~runLog[2].res.ok /\ runLog[3].is_or

\* C12 (as stated): under spawn and spawn_with_output no child is waited on
\* before the caller calls a wait operation of the waiter it was handed.
C12_NoWaitBeforeCallerWait ==
    (entry \in SpawnEntries /\ ~callerWaits) => waitLog = <<>>

\* C12 (amended): spawn and spawn_with_output hand all the handles to the
\* caller without calling the waiter; before the caller's wait the only
\* children waited on are external stages directly followed by a builtin
\* stage, which waits for its predecessor while the pipeline is spawned.
C12_SpawnReturnsWaiter ==
    (entry \in SpawnEntries /\ ~callerWaits) =>
      /\ ~waiterRan
      /\ pc # "wait"
      /\ \A k \in DOMAIN waitLog :
            /\ waitLog[k].by = "walk"
            /\ IsExt(CurCmds[waitLog[k].idx])
            /\ waitLog[k].idx < Len(CurCmds)
            /\ IsBuiltin(CurCmds[waitLog[k].idx + 1])
      /\ pc = "spawned" =>
            /\ Len(children) = Len(CurCmds)
            /\ \A i \in DOMAIN children :
                  (IsExt(CurCmds[i])
                      /\ (i = Len(CurCmds) \/ ~IsBuiltin(CurCmds[i + 1])))
                  => (children[i].some /\ WaitCount(i) = 0)

\* the waiter of an external stage piped into a builtin and on into an
\* external stage was handed to the caller: the first child is already waited
\* on, the last is not
C12_Witness ==
    /\ entry = "spawn" /\ pc = "spawned" /\ Len(CurCmds) = 3
    /\ IsExt(CurCmds[1]) /\ IsBuiltin(CurCmds[2]) /\ IsExt(CurCmds[3])
    /\ WaitCount(1) = 1 /\ WaitCount(3) = 0

\* --------------------------- reference: the descriptor table of a shell
\* `< p`, `> p`, `>> p` and `2> p` point an entry at the file; `1>&2` and
\* `2>&1` copy the other entry as it is at that point of the list
ShellStep(fd, r) ==
    CASE r.tag = "FileToStdin" -> [fd EXCEPT !.stdin = DFile(Resolve(caller_cwd, r.path))]
      [] r.tag = "StdoutToFile" -> [fd EXCEPT !.stdout = DFile(Resolve(caller_cwd, r.path))]
      [] r.tag = "StderrToFile" -> [fd EXCEPT !.stderr = DFile(Resolve(caller_cwd, r.path))]
      [] r.tag = "StdoutToStderr" -> [fd EXCEPT !.stdout = fd.stderr]
      [] r.tag = "StderrToStdout" -> [fd EXCEPT !.stderr = fd.stdout]

RECURSIVE ShellFold(_, _)
ShellFold(fd, rs) == IF rs = <<>> THEN fd ELSE ShellFold(ShellStep(fd, Head(rs)), Tail(rs))

\* the target of a redirect slot, the inherited stream when the slot is empty
TargetOr(file, inherited) == IF file.some THEN DFile(file.target) ELSE inherited

\* C13: redirects are applied left to right and a duplication binds to the
\* other stream's target as it is at that point of the list: after
\* setup_redirects, and until the stage is spawned, the stdout and stderr
\* slots of every stage are those of
\* the descriptor table that starts from the inherited stdout and stderr;
\* for `2> err 1>&2` stdout is err, for `1>&2 2> err` stdout is the inherited
\* stderr.
C13_DupBindsCurrentTarget ==
    \A i \in DOMAIN redir :
        (pc = "setup" \/ (pc = "walk" /\ i >= si)) =>
          LET rs == CurCmds[i].redirects
              fd == ShellFold([stdin |-> DInherit, stdout |-> DFile(DevStdout),
                               stderr |-> DFile(DevStderr)], rs)
              err == DFile(Resolve(caller_cwd, <<"err">>))
          IN  /\ TargetOr(redir[i].stdout_redirect, DFile(DevStdout)) = fd.stdout
              /\ TargetOr(redir[i].stderr_redirect, DFile(DevStderr)) = fd.stderr
              /\ rs = <<StderrToFile(<<"err">>, FALSE), StdoutToStderr>>
                    => (redir[i].stdout_redirect.some
                            /\ DFile(redir[i].stdout_redirect.target) = err)
              /\ rs = <<StdoutToStderr, StderrToFile(<<"err">>, FALSE)>>
                    => (redir[i].stdout_redirect.some
                            /\ redir[i].stdout_redirect.target = DevStderr
                            /\ DFile(redir[i].stderr_redirect.target) = err)

\* the redirects `2> err 1>&2` of an external stage have been set up: both
\* slots hold err
C13_Witness ==
    /\ pc = "walk" /\ Len(CurCmds) = 1 /\ IsExt(CurCmds[1])
    /\ CurCmds[1].redirects = <<StderrToFile(<<"err">>, FALSE), StdoutToStderr>>
    /\ redir[1].stdout_redirect.some
    /\ redir[1].stdout_redirect.target = DirHome \o <<"err">>
    /\ redir[1].stderr_redirect = redir[1].stdout_redirect

\* the stream of a stage as a shell would name it: stderr that is captured
\* and logged stands for the inherited stderr, a builtin's absent stdin for
\* the inherited stdin
AsShell(d) ==
    CASE d = DLog -> DFile(DevStderr)
      [] d = DNone -> DInherit
      [] OTHER -> d

\* C14: for every stage and every redirect list the streams of the stage end
\* up where a POSIX shell connects them when it processes the same
\* redirections left to right, starting from the stage's place in the
\* pipeline: stdin from the predecessor (the caller's stdin for the first
\* stage), stdout to the successor (for the last stage the captured output
\* or the caller's stdout), stderr inherited.
C14_ShellDestinations ==
    \A i \in DOMAIN ioLog :
        (pc \in {"walk", "wait", "ret"} /\ arg0(CurCmds[i]) # "cd") =>
          LET fd == ShellFold(
                      [stdin |-> IF i = 1 THEN DInherit ELSE DPrev,
                       stdout |-> IF i < Len(CurCmds) THEN DNext
                                  ELSE IF with_output THEN DCapture
                                  ELSE DFile(DevStdout),
                       stderr |-> DFile(DevStderr)],
                      CurCmds[i].redirects)
          IN  /\ AsShell(ioLog[i].stdin) = fd.stdin
              /\ AsShell(ioLog[i].stdout) = fd.stdout
              /\ AsShell(ioLog[i].stderr) = fd.stderr

\* the directives of a redirect list that decide where stdout goes
StdoutDirs(rs) == {k \in DOMAIN rs : rs[k].tag \in {"StdoutToFile", "StdoutToStderr"}}

\* stage i of the pipeline at hand sends its stdout to the file named by
\* directive k, and nothing else in the pipeline is connected to that file
SoleWriter(i, k) ==
    LET rs == CurCmds[i].redirects IN
    /\ k \in StdoutDirs(rs) /\ rs[k].tag = "StdoutToFile"
    /\ \A m \in StdoutDirs(rs) : m <= k
    /\ \A m \in DOMAIN rs : (m > k => rs[m].tag # "StderrToStdout")
    /\ \A j \in DOMAIN CurCmds : \A m \in DOMAIN CurCmds[j].redirects :
          (j # i \/ m # k) => CurCmds[j].redirects[m].path # rs[k].path

\* stage i ran to its end: a builtin returned Ok, an external child was
\* waited on
Completed(i) ==
    /\ i \in DOMAIN ioLog /\ ioLog[i].ok
    /\ IsBuiltin(CurCmds[i]) \/ (IsExt(CurCmds[i]) /\ WaitCount(i) > 0)

\* the bytes file f held before the first pipeline was run
Before(f) == IF f \in InitFiles THEN InitContent(f) ELSE <<>>

\* C15: once a stage whose stdout is sent to file p by StdoutToFile(p, append)
\* has completed, p holds the stage's stdout alone (append false) or what p
\* held before followed by the stage's stdout (append true); none of the
\* stage's stdout is in the caller's stdout, in the next stage's stdin or in
\* the captured output; a builtin that reads p afterwards gets those bytes.
C15_StdoutToFile ==
    /\ \A i \in DOMAIN ioLog : \A k \in DOMAIN CurCmds[i].redirects :
          (pc \in {"walk", "wait", "ret"} /\ gi = 1 /\ ~inOr
                /\ SoleWriter(i, k) /\ Completed(i)) =>
            LET r == CurCmds[i].redirects[k]
                f == Resolve(caller_cwd, r.path)
            IN  /\ content[f] = (IF r.append THEN Before(f) ELSE <<>>) \o ioLog[i].out
                /\ Tags[i] \in Range(ioLog[i].out)
                /\ Tags[i] \notin Range(content[DevStdout])
                /\ Tags[i] \notin Range(output)
                /\ (i + 1) \in DOMAIN ioLog => Tags[i] \notin Range(ioLog[i + 1].inbuf)
    /\ (group \in WriteThenRead /\ gi = 2 /\ ioLog # <<>>) =>
            LET r == group[1].cmds[1].redirects[1]
                f == Resolve(caller_cwd, r.path)
            IN  /\ ioLog[1].inbuf = content[f]
                /\ \E t \in outs :
                      content[f] = (IF r.append THEN Before(f) ELSE <<>>) \o Subst(t, 1)

\* an external stage appended its stdout to the file old, and the builtin of
\* the next pipeline read the old bytes followed by the new ones from it
C15_Witness ==
    /\ group \in WriteThenRead /\ gi = 2 /\ ioLog # <<>>
    /\ IsExt(group[1].cmds[1])
    /\ group[1].cmds[1].redirects = <<StdoutToFile(<<"old">>, TRUE)>>
    /\ ioLog[1].inbuf = <<"o", "l", "d", "\n", "1", "\n">>
    /\ content[DevStdout] = <<>>

\* the stdin redirects of a redirect list
StdinDirs(rs) == {k \in DOMAIN rs : rs[k].tag = "FileToStdin"}

\* C16: when a stage without stdout redirect is followed by a stage, both
\* external or builtin, the stdin of the successor yields exactly the bytes
\* the predecessor wrote to its stdout and then end-of-file; the inbuf of a
\* builtin that is the first stage holds the contents of its stdin redirect
\* file, or nothing without such a redirect.
C16_PipeCarriesStdout ==
    pc \in {"walk", "wait", "ret"} =>
      /\ \A i \in DOMAIN ioLog :
            ((i + 1) \in DOMAIN ioLog
                /\ arg0(CurCmds[i]) # "cd" /\ arg0(CurCmds[i + 1]) # "cd"
                /\ StdoutDirs(CurCmds[i].redirects) = {}
                /\ (IsBuiltin(CurCmds[i + 1]) \/ ioLog[i + 1].ok)) =>
              /\ ioLog[i + 1].stdin = DPrev
              /\ ioLog[i + 1].inbuf = ioLog[i].out
              /\ Tags[i] \in Range(ioLog[i + 1].inbuf)
              /\ ioLog[i + 1].eof
      /\ (ioLog # <<>> /\ IsBuiltin(CurCmds[1])) =>
            LET rs == CurCmds[1].redirects
                ins == StdinDirs(rs)
                k == CHOOSE m \in ins : \A n \in ins : n <= m
            IN  ioLog[1].inbuf =
                    IF ins = {} THEN <<>> ELSE content[Resolve(caller_cwd, rs[k].path)]

\* an external stage piped into a builtin piped into an external stage: each
\* successor got the bytes of its predecessor
C16_Witness ==
    /\ pc = "wait" /\ Len(CurCmds) = 3 /\ Len(ioLog) = 3
    /\ IsExt(CurCmds[1]) /\ IsBuiltin(CurCmds[2]) /\ IsExt(CurCmds[3])
    /\ ioLog[2].inbuf = <<"1", "\n">> /\ ioLog[3].inbuf = <<"2", "\n">>
    /\ ioLog[3].eof

\* C20: the String the output waiter returns is the captured stdout of the
\* last stage (decoded) without its last newline if it ends with one: output
\* that ends with one newline loses it, output that ends with several loses
\* only the last, output that does not end with a newline is unchanged.
C20_OneNewlineStripped ==
    (pc = "ret" /\ with_output /\ waiterRan /\ ret.ok) =>
      LET str == from_utf8_lossy(ioLog[Len(CurCmds)].out)
          n == Len(str)
      IN  /\ ret.out = Len(CurCmds)
          /\ (n > 0 /\ str[n] = "\n") =>
                /\ str = output \o <<"\n">>
                /\ (n > 1 /\ str[n - 1] = "\n") => output[n - 1] = "\n"
                /\ (n = 1 \/ str[n - 1] # "\n") =>
                      (output = <<>> \/ output[Len(output)] # "\n")
          /\ (n = 0 \/ str[n] # "\n") => output = str

\* the last stage wrote a byte and two newlines: the String returned ends
\* with one newline
C20_Witness ==
    /\ pc = "ret" /\ with_output /\ waiterRan /\ ret.ok /\ Len(CurCmds) = 2
    /\ ioLog[2].out = <<"2", "\n", "\n">>
    /\ output = <<"2", "\n">>

\* the part of an argument before its first "=", and the part after it
NameOf(arg) ==
    LET k == CHOOSE m \in DOMAIN arg : arg[m] = "=" /\ \A n \in 1..(m - 1) : arg[n] # "="
    IN  SubSeq(arg, 1, k - 1)
ValueOf(arg) ==
    LET k == CHOOSE m \in DOMAIN arg : arg[m] = "=" /\ \A n \in 1..(m - 1) : arg[n] # "="
    IN  SubSeq(arg, k + 1, Len(arg))

\* the arguments given before the first one that was pushed to argv
EnvPrefix == SubSeq(argLog, 1, Len(argLog) - Len(stage.args))

\* C17: only a leading prefix of the arguments is extracted into envs: argv
\* is the rest of the arguments, verbatim and in order, whatever their form;
\* envs holds exactly the names of the prefix, each with the value of its
\* last assignment; ["A=1", "ls", "A=2"] gives envs {A: 1}, argv [ls, A=2].
C17_EnvPrefixOnly ==
    LET pre == EnvPrefix IN
    /\ argLog = pre \o stage.args
    /\ \A j \in DOMAIN pre : "=" \in Range(pre[j]) /\ NameOf(pre[j]) \in DOMAIN stage.envs
    /\ \A name \in DOMAIN stage.envs :
          \E j \in DOMAIN pre :
              /\ NameOf(pre[j]) = name /\ stage.envs[name] = ValueOf(pre[j])
              /\ \A m \in DOMAIN pre : m > j => NameOf(pre[m]) # name
    /\ argLog = <<(<<"A", "=", "1">>), Str_ls, (<<"A", "=", "2">>)>> =>
          /\ stage.args = <<Str_ls, (<<"A", "=", "2">>)>>
          /\ DOMAIN stage.envs = {<<"A">>}
          /\ stage.envs[<<"A">>] = <<"1">>

\* A=1 and A=2 were given, then ls: envs holds A = 2 alone and argv is [ls]
C17_Witness ==
    /\ argLog = <<(<<"A", "=", "1">>), (<<"A", "=", "2">>), Str_ls>>
    /\ stage.args = <<Str_ls>>
    /\ DOMAIN stage.envs = {<<"A">>} /\ stage.envs[<<"A">>] = <<"2">>

\* s matches NAME=VALUE with NAME a non-empty string over [A-Za-z0-9_]
MatchesNameValue(arg) ==
    /\ "=" \in Range(arg)
    /\ NameOf(arg) # <<>>
    /\ \A k \in DOMAIN NameOf(arg) : NameOf(arg)[k] \in NameChars

\* C18: add_arg(s) on a stage whose argv is empty records s in envs and
\* leaves argv empty if and only if s matches NAME=VALUE with NAME non-empty
\* over [A-Za-z0-9_]; every other s is pushed to argv and sets in_cmd_map
\* from the registry.
C18_EnvIffNameValue ==
    (argLog # <<>> /\ Len(stage.args) <= 1) =>
      LET arg == argLog[Len(argLog)] IN
      /\ MatchesNameValue(arg) <=> stage.args = <<>>
      /\ MatchesNameValue(arg) =>
            (NameOf(arg) \in DOMAIN stage.envs
                /\ stage.envs[NameOf(arg)] = ValueOf(arg))
      /\ ~MatchesNameValue(arg) =>
            (stage.args = <<arg>> /\ stage.in_cmd_map = (arg \in mapAtArg0))

\* C19: the classification of a stage is fixed when its first argument is
\* pushed to argv: in_cmd_map keeps the answer the registry gave then, and
\* Cmd::spawn runs the stage as a builtin or as an external process by that
\* answer, whatever was registered in between.
C19_ClassificationFixed ==
    /\ stage.args # <<>> => stage.in_cmd_map = (stage.args[1] \in mapAtArg0)
    /\ stage.std_cmd = (bpc # "build" /\ ~stage.in_cmd_map)
    /\ bpc = "spawned" =>
          executed.kind =
              IF stage.args # <<>> /\ stage.args[1] = Str_cd THEN "cd"
              ELSE IF stage.args = <<>> \/ stage.args[1] \in mapAtArg0 THEN "builtin"
              ELSE "external"

\* ls was not registered when the stage was built, was registered before the
\* spawn, and the stage ran as an external process
C19_Witness ==
    /\ bpc = "spawned" /\ stage.args = <<Str_ls>>
    /\ Str_ls \notin mapAtArg0 /\ Str_ls \in DOMAIN CMD_MAP
    /\ executed.kind = "external"

\* C21: when a builtin callback returns failure, whatever the position of
\* the stage and whatever CMD_LIB_PIPEFAIL, the pipeline returns that error
\* without calling the waiter; the failed stage is the last one spawned or
\* invoked; its errbuf and outbuf went to no redirect file, no successor, no
\* log and not to the caller's stdout.
C21_BuiltinFailureAborts ==
    (Returned /\ ~ret.ok /\ ret.err.kind = "builtin") =>
      LET i == ret.err.idx IN
      /\ ret = Fail(Err("builtin", <<>>, i))
      /\ ~waiterRan
      /\ IsBuiltin(CurCmds[i])
      /\ spawnLog # <<>> /\ spawnLog[Len(spawnLog)] = i
      /\ \A k \in DOMAIN spawnLog : spawnLog[k] <= i
      /\ Len(ioLog) = i
      /\ ioLog[i].errTo = "none" /\ ioLog[i].outTo = "none"
      /\ BufCount(i) = 0
      /\ (gi = 1 /\ ~inOr) => \A f \in DOMAIN content : Tags[i] \notin Range(content[f])

\* with CMD_LIB_PIPEFAIL off, the builtin in the middle of three stages
\* failed after it had been invoked: the third stage was never spawned
C21_Witness ==
    /\ Returned /\ ~ret.ok /\ ret.err.kind = "builtin" /\ ret.err.idx = 2
    /\ ~pipefail /\ Len(CurCmds) = 3
    /\ CurCmds[2].redirects # <<>>
    /\ spawnLog = <<1, 2>>
    /\ Tags[2] \in Range(ioLog[2].out)

\* the stages that hand no buffered output and no stdout pipe to their
\* successor: a cd stage, a builtin or an external with a stdout redirect
NoOutputStage(c) ==
    \/ arg0(c) = "cd"
    \/ (\E k \in DOMAIN c.redirects : c.redirects[k].tag = "StdoutToFile")

\* a non-first external stage that follows such a stage and is itself followed
\* by a further external stage
HeldStdin(cmds) ==
    \E i \in 2..(Len(cmds) - 1) :
        IsExt(cmds[i]) /\ NoOutputStage(cmds[i - 1]) /\ IsExt(cmds[i + 1])

\* C22: every pipeline of programs that exit at end-of-file on their stdin
\* eventually returns from the entry point and its waiter.
C22_EventuallyReturns == <>(pc = "done")

\* the same for the pipelines without a held stdin
C22_ReturnsUnlessHeld == (~HeldStdin(group[1].cmds)) => <>(pc = "done")

\* C23: whatever registrations are interleaved with the construction of a
\* stage, the empty name stays registered, every name registered when the
\* stage was classified is still registered, a stage classified as a builtin
\* has its name in the registry, and the lookup of a spawned builtin finds a
\* callback.
C23_BuiltinFindsCallback ==
    /\ <<>> \in DOMAIN CMD_MAP
    /\ mapAtArg0 \subseteq DOMAIN CMD_MAP
    /\ stage.in_cmd_map => arg0_str(stage) \in DOMAIN CMD_MAP
    /\ executed.kind = "builtin" =>
          /\ executed.callback \in Callbacks \cup {"builtin_true"}
          /\ executed.callback = CMD_MAP[arg0_str(stage)]

\* a stage made of an environment assignment alone was spawned as a builtin
\* after both names had been registered: the empty name found builtin_true
C23_Witness ==
    /\ bpc = "spawned"
    /\ stage.args = <<>> /\ argLog # <<>>
    /\ DOMAIN CMD_MAP = {<<>>} \cup RegNames
    /\ executed = [kind |-> "builtin", callback |-> "builtin_true"]

\* the cd stages of the pipeline at hand that succeeded
SuccessfulCds == {i \in Range(spawnLog) : arg0(CurCmds[i]) = "cd"}

LastOf(S) == CHOOSE i \in S : \A j \in S : j <= i

\* C24: when a pipeline fails after a cd stage of it succeeded, current_dir
\* is still that stage's operand when the pipeline returns; the fallback and
\* every later pipeline start with the current_dir the pipeline before them
\* ended with, failed or not, and until a cd stage of their own succeeds
\* their stages are run with it.
C24_CdSurvivesFailure ==
    /\ (Returned /\ ~ret.ok /\ SuccessfulCds # {}) =>
          current_dir = CurCmds[LastOf(SuccessfulCds)].args[2]
    /\ (runLog # <<>> /\ pc # "done") => dirAtStart = runLog[Len(runLog)].dir
    /\ (pc # "done" /\ SuccessfulCds = {}) =>
          /\ current_dir = dirAtStart
          /\ \A k \in DOMAIN pathLog :
                pathLog[k].op \in {"chdir", "env"} => pathLog[k].path = dirAtStart

\* cd /a | ls failed in the waiter, its fallback ran in /a and succeeded,
\* and the stage of the pipeline after it was run in /a too
C24_Witness ==
    /\ Returned /\ ret.ok /\ gi = 2
    /\ Len(runLog) = 2
    /\ runLog[1].res.ok = FALSE /\ runLog[1].res.err.kind = "status"
    /\ runLog[1].dir = DirA
    /\ runLog[2].is_or /\ runLog[2].res.ok /\ runLog[2].dir = DirA
    /\ dirAtStart = DirA /\ SuccessfulCds = {}
    /\ \E k \in DOMAIN pathLog : pathLog[k].op = "chdir" /\ pathLog[k].path = DirA

====
